---- MODULE Spec2Model ----
(***************************************************************************)
(* Model of matrixMulCUBLAS.cpp: the NVML power/clock transitions          *)
(* (undervolte, resetvolte), the row-major-through-column-major SGEMM      *)
(* call, and the benchmark driver (matrixMultiply, main).                  *)
(*                                                                         *)
(* Numbers: buffer elements and throughputs are fixed-point integers.      *)
(* A C `float` keeps 24 significant bits (RoundFloat); a C `double` is     *)
(* taken as exact at the resolution of the fixed-point unit.               *)
(***************************************************************************)
EXTENDS Integers, Sequences, FiniteSets, TLC

VARIABLES
    \* ---- the physical device's power/clock regime and the NVML library
    powerLimit,     \* power management limit, milliwatts
    appClocks,      \* <<memMHz, graphicsMHz>>, or <<>> for the device defaults
    autoBoost,      \* auto-boosted clocks enabled?
    nvmlInited,     \* nvmlInit() has succeeded at least once
    \* ---- one activation of undervolte() / resetvolte()
    fn,             \* "none", "undervolte" or "resetvolte"
    ppc,            \* position inside the activation
    device,         \* local nvmlDevice_t: <<>> unset, or <<index>>
    nvmlLog,        \* NVML calls issued by the current activation, in order
    out,            \* what the current activation wrote to standard output
    pre,            \* device regime when the current activation was entered
    hist,           \* completed activations, oldest first
    regime0,        \* device regime when the process started
    \* ---- matrixMultiply() / main()
    pc, sub,        \* statement about to execute, and index within a group
    matrix_size,    \* sMatrixSize
    held,           \* resources acquired and not yet released
    h_A, h_B, h_C, h_C2,   \* host buffers (row-major sequences)
    d_A, d_B, d_C, d_C2,   \* device buffers
    reference,      \* destination of matrixMulCPU
    randState,      \* state of rand()
    stream,         \* work queued on the NULL stream, oldest first
    ev,             \* state of the two cudaEvent_t
    j, fail_count, total_perf,
    sumPerf,        \* exact sum of the per-trial gigaFlops values
    trialsDone,     \* trials whose comparison has run
    failsSeen,      \* trials whose comparison returned false
    c2Writes,       \* writes to d_C2 so far
    trace,          \* events of the current timed invocation, in order
    report,         \* the figures printed after the loop
    matrix_result,  \* main's local: what matrixMultiply returned, -1 before
    exitCode        \* the process exit status, -1 while it runs

powerVars  == <<powerLimit, appClocks, autoBoost, nvmlInited>>
callVars   == <<fn, ppc, device, nvmlLog, out, pre, hist, regime0>>
bufVars    == <<h_A, h_B, h_C, h_C2, d_A, d_B, d_C, d_C2, reference, randState>>
statVars   == <<j, fail_count, total_perf, sumPerf, trialsDone, failsSeen>>
gpuVars    == <<stream, ev>>
endVars    == <<report, matrix_result, exitCode>>
driverVars == <<pc, sub, matrix_size, held, gpuVars, c2Writes, trace, endVars>>
vars == <<powerVars, callVars, bufVars, statVars, driverVars>>

-----------------------------------------------------------------------------
(* Bounds *)

MaxCalls == 2       \* activations of undervolte/resetvolte in one behaviour

-----------------------------------------------------------------------------
(* Power/Clock controller: undervolte(), resetvolte() *)

ConstrainedLimit == 30000
NormalLimit      == 38500
LockedMemClock   == 3510
LockedGfxClock   == 1885

NVML_FEATURE_DISABLED == 0
NVML_FEATURE_ENABLED  == 1

\* No application clocks set: the device runs at its default clocks.
DefaultClocks == <<>>

\* Power limits the device may have when the program starts.
PowerLimits == {ConstrainedLimit, NormalLimit, 40000}

Regime == [limit |-> powerLimit, clocks |-> appClocks, boost |-> autoBoost]

NvmlCall(op, arg, ok) == [op |-> op, arg |-> arg, ok |-> ok]

\* A caller enters undervolte() / resetvolte().
Call(f) ==
    /\ fn = "none"
    /\ Len(hist) < MaxCalls
    /\ fn' = f
    /\ ppc' = "init"
    /\ device' = <<>>
    /\ nvmlLog' = <<>>
    /\ out' = <<>>
    /\ pre' = Regime
    /\ UNCHANGED <<hist, regime0>>
    /\ UNCHANGED <<powerVars, bufVars, statVars, driverVars>>

CallUndervolte == Call("undervolte")
CallResetvolte == Call("resetvolte")

\* Common shape of one checked NVML call: issue it; on failure print the
\* diagnostic and return; on success go on to the next statement.
Checked(op, arg, ok, msg, next) ==
    /\ nvmlLog' = Append(nvmlLog, NvmlCall(op, arg, ok))
    /\ IF ok
          THEN /\ ppc' = next
               /\ out' = out
          ELSE /\ ppc' = "done"
               /\ out' = Append(out, msg)
    /\ UNCHANGED <<fn, pre, hist, regime0>>
    /\ UNCHANGED <<bufVars, statVars, driverVars>>

NvmlInitStep(f) ==
    /\ fn = f /\ ppc = "init"
    /\ \E ok \in BOOLEAN :
          /\ Checked("nvmlInit", <<>>, ok, "init error", "handle")
          /\ nvmlInited' = (nvmlInited \/ ok)
          /\ UNCHANGED <<powerLimit, appClocks, autoBoost, device>>

GetHandleStep(f) ==
    /\ fn = f /\ ppc = "handle"
    /\ \E ok \in BOOLEAN :
          /\ Checked("nvmlDeviceGetHandleByIndex", <<0>>, ok,
                     "Failed to get handle for device", "limit")
          /\ device' = IF ok THEN <<0>> ELSE device
          /\ UNCHANGED powerVars

SetLimitStep(f, mw) ==
    /\ fn = f /\ ppc = "limit"
    /\ \E ok \in BOOLEAN :
          /\ Checked("nvmlDeviceSetPowerManagementLimit", <<mw>>, ok,
                     "Failed to set power limit of device", "clocks")
          /\ powerLimit' = IF ok THEN mw ELSE powerLimit
          /\ UNCHANGED <<appClocks, autoBoost, nvmlInited, device>>

UndervolteInit      == NvmlInitStep("undervolte")
UndervolteGetHandle == GetHandleStep("undervolte")

\* The power-limit call without the return on failure.
UndervolteSetLimitNoReturn ==
    /\ fn = "undervolte" /\ ppc = "limit"
    /\ \E ok \in BOOLEAN :
          /\ nvmlLog' = Append(nvmlLog,
                 NvmlCall("nvmlDeviceSetPowerManagementLimit", <<ConstrainedLimit>>, ok))
          /\ ppc' = "clocks"
          /\ out' = IF ok THEN out
                          ELSE Append(out, "Failed to set power limit of device")
          /\ powerLimit' = IF ok THEN ConstrainedLimit ELSE powerLimit
          /\ UNCHANGED <<appClocks, autoBoost, nvmlInited, device>>
          /\ UNCHANGED <<fn, pre, hist, regime0>>
          /\ UNCHANGED <<bufVars, statVars, driverVars>>

UndervolteSetLimit == SetLimitStep("undervolte", ConstrainedLimit)

\* The clocks call undoing the power limit when it fails.
UndervolteSetClocksRollback ==
    /\ fn = "undervolte" /\ ppc = "clocks"
    /\ \E ok \in BOOLEAN :
          /\ Checked("nvmlDeviceSetApplicationsClocks",
                     <<LockedMemClock, LockedGfxClock>>, ok,
                     "Failed to set clock of device", "boost")
          /\ appClocks' = IF ok THEN <<LockedMemClock, LockedGfxClock>>
                                ELSE appClocks
          /\ powerLimit' = IF ok THEN powerLimit ELSE pre.limit
          /\ UNCHANGED <<autoBoost, nvmlInited, device>>

UndervolteSetClocks ==
    /\ fn = "undervolte" /\ ppc = "clocks"
    /\ \E ok \in BOOLEAN :
          /\ Checked("nvmlDeviceSetApplicationsClocks",
                     <<LockedMemClock, LockedGfxClock>>, ok,
                     "Failed to set clock of device", "boost")
          /\ appClocks' = IF ok THEN <<LockedMemClock, LockedGfxClock>>
                                ELSE appClocks
          /\ UNCHANGED <<powerLimit, autoBoost, nvmlInited, device>>

UndervolteSetBoost ==
    /\ fn = "undervolte" /\ ppc = "boost"
    /\ \E ok \in BOOLEAN :
          /\ Checked("nvmlDeviceSetAutoBoostedClocksEnabled", <<NVML_FEATURE_DISABLED>>, ok,
                     "Failed to disable autoboost of device", "done")
          /\ autoBoost' = IF ok THEN FALSE ELSE autoBoost
          /\ UNCHANGED <<powerLimit, appClocks, nvmlInited, device>>

ResetvolteInit      == NvmlInitStep("resetvolte")
ResetvolteGetHandle == GetHandleStep("resetvolte")

ResetvolteSetLimit  == SetLimitStep("resetvolte", NormalLimit)

ResetvolteResetClocks ==
    /\ fn = "resetvolte" /\ ppc = "clocks"
    /\ \E ok \in BOOLEAN :
          /\ Checked("nvmlDeviceResetApplicationsClocks", <<>>, ok,
                     "Failed to reset clock of device", "boost")
          /\ appClocks' = IF ok THEN DefaultClocks ELSE appClocks
          /\ UNCHANGED <<powerLimit, autoBoost, nvmlInited, device>>

ResetvolteSetBoost ==
    /\ fn = "resetvolte" /\ ppc = "boost"
    /\ \E ok \in BOOLEAN :
          /\ Checked("nvmlDeviceSetAutoBoostedClocksEnabled", <<NVML_FEATURE_ENABLED>>, ok,
                     "Failed to disable autoboost of device", "done")
          /\ autoBoost' = IF ok THEN TRUE ELSE autoBoost
          /\ UNCHANGED <<powerLimit, appClocks, nvmlInited, device>>

\* Index of the failing call of the current activation, 0 when none failed.
FailedAt ==
    IF nvmlLog # <<>> /\ ~ nvmlLog[Len(nvmlLog)].ok THEN Len(nvmlLog) ELSE 0

\* What a void function hands back to its caller.
VoidResult == "void"

\* Both functions are declared void: every return statement, and falling off
\* the end, gives the caller the same (empty) result.
Return ==
    /\ fn # "none" /\ ppc = "done"
    /\ hist' = Append(hist, [fn |-> fn, failedAt |-> FailedAt,
                             ret |-> VoidResult, out |-> out,
                             pre |-> pre, post |-> Regime])
    /\ fn' = "none"
    /\ ppc' = "idle"
    /\ UNCHANGED <<device, nvmlLog, out, pre, regime0>>
    /\ UNCHANGED <<powerVars, bufVars, statVars, driverVars>>

-----------------------------------------------------------------------------
(* Arithmetic *)

\* Significand range of an IEEE single: 2^24.
FloatSignificand == 16777216

RECURSIVE FloatUlp(_, _)
FloatUlp(x, u) == IF x \div u < FloatSignificand THEN u ELSE FloatUlp(x, 2 * u)

\* Conversion of a non-negative value to `float`: nearest value with a 24-bit
\* significand, ties to even.
RoundFloat(x) ==
    LET u == FloatUlp(x, 1)
        q == x \div u
        r == x % u
    IN  IF 2 * r > u \/ (2 * r = u /\ q % 2 = 1) THEN (q + 1) * u ELSE q * u

RECURSIVE SumTo(_, _)
\* f[0] + ... + f[n-1]
SumTo(f, n) == IF n = 0 THEN 0 ELSE SumTo(f, n - 1) + f[n - 1]

-----------------------------------------------------------------------------
(* Matrices: flat buffers, element at C offset z is buf[z + 1] *)

MatDim == 2     \* stands for n = 10240 in the driver
MaxHA  == 3     \* shapes explored when the multiply is checked on its own
MaxWA  == 2
MaxWB  == 4
RandRange == 8  \* rand() yields 0 .. RandRange-1, i.e. RAND_MAX = RandRange-1

SrandSeed == 2006

\* Content of memory that was allocated and never written.
Undef == -1

Fresh(size) == [i \in 1 .. size |-> Undef]

SquareSize(n) ==
    [uiWA |-> n, uiHA |-> n, uiWB |-> n, uiHB |-> n, uiWC |-> n, uiHC |-> n]

size_A == matrix_size.uiWA * matrix_size.uiHA
size_B == matrix_size.uiWB * matrix_size.uiHB
size_C == matrix_size.uiWC * matrix_size.uiHC

\* rand(): a linear congruential generator; data[i] = rand() / (float)RAND_MAX
\* is kept as the integer rand() (unit 1/RAND_MAX).
RandNext(s) == (5 * s + 3) % RandRange

RECURSIVE RandomFill(_, _)
\* randomInit: the buffer and the generator state after `size` draws from `s`.
RandomFill(s, size) ==
    IF size = 0 THEN [data |-> <<>>, state |-> s]
    ELSE LET rest == RandomFill(s, size - 1)
             v == RandNext(rest.state)
         IN  [data |-> Append(rest.data, v), state |-> v]

randomInit(s, size) == RandomFill(s, size)

\* matrixMulCPU: triple loop, double accumulator, narrowed to float on store.
matrixMulCPU(A, B, hA, wA, wB) ==
    [idx \in 1 .. hA * wB |->
        LET i  == (idx - 1) \div wB
            jj == (idx - 1) % wB
            prod == [k \in 0 .. wA - 1 |-> A[i * wA + k + 1] * B[k * wB + jj + 1]]
        IN  RoundFloat(SumTo(prod, wA))]

\* cublasSgemm with CUBLAS_OP_N, CUBLAS_OP_N: column-major
\* C(i,j) = alpha * sum_l A(i,l) * B(l,j) + beta * C(i,j), where X(r,c) is at
\* offset r + c * ldx. With beta = 0 the old content of C is not read.
ColMajorGemm(m, n, k, alpha, A, lda, B, ldb, beta, C, ldc) ==
    [idx \in 1 .. Len(C) |->
        LET z  == idx - 1
            jj == z \div ldc
            ii == z % ldc
            prod == [l \in 0 .. k - 1 |-> A[ii + l * lda + 1] * B[l + jj * ldb + 1]]
        IN  IF ii < m /\ jj < n
               THEN RoundFloat(alpha * SumTo(prod, k)
                               + (IF beta = 0 THEN 0 ELSE beta * C[idx]))
               ELSE C[idx]]

\* The call as a column-major programmer would write it: cublasSgemm(A, B).
SgemmCallNaive(dst) ==
    ColMajorGemm(matrix_size.uiHA, matrix_size.uiWB, matrix_size.uiWA, 1,
                 d_A, matrix_size.uiHA,
                 d_B, matrix_size.uiWA,
                 0, dst, matrix_size.uiHA)

\* The call the program issues, both for the baseline and in the loop.
SgemmCall(dst) ==
    ColMajorGemm(matrix_size.uiWB, matrix_size.uiHA, matrix_size.uiWA, 1,
                 d_B, matrix_size.uiWB,
                 d_A, matrix_size.uiWA,
                 0, dst, matrix_size.uiWB)

\* A result damaged by an unstable device: its first and last elements are off.
Corrupt(buf) ==
    [i \in 1 .. Len(buf) |-> IF i \in {1, Len(buf)} THEN buf[i] + 1 ELSE buf[i]]

\* What the device may leave in the destination of one multiply.
GemmOutcomes(dst) == {SgemmCall(dst), Corrupt(SgemmCall(dst))}

SumSq(f, n) == SumTo([i \in 0 .. n - 1 |-> f[i + 1] * f[i + 1]], n)

\* sdkCompareL2fe(reference, data, len, epsilon): false when the reference
\* norm is zero, else sqrt(sum (ref-data)^2) / sqrt(sum ref^2) < epsilon.
\* With epsilon = 1.0e-10 and elements that are whole fixed-point units, the
\* quotient is below epsilon exactly when the error sum is zero.
sdkCompareL2fe(ref, data, len) ==
    LET diff == [i \in 1 .. len |-> ref[i] - data[i]]
    IN  /\ SumSq(ref, len) # 0
        /\ SumSq(diff, len) = 0

-----------------------------------------------------------------------------
(* Benchmark driver: matrixMultiply(), main() *)

nIter == 100

\* Exit status of a run stopped by checkCudaErrors.
EXIT_FAILURE == 1

HostBuffers   == {"h_A", "h_B", "h_C", "h_C2"}
DeviceBuffers == <<"d_A", "d_B", "d_C", "d_C2">>
Events        == <<"start", "stop">>
DeviceSide    == {"d_A", "d_B", "d_C", "d_C2", "start", "stop", "handle"}

\* Elapsed times cudaEventElapsedTime may report, milliseconds.
Msecs == {64}

\* flopsPerMatrixMul * 1.0e-9f for n = 10240 (1.0e-9f being the float nearest
\* to 1e-9: the double product is 2147.4835872650146), times 1000 msec per
\* second, in units of 2^-9 GFlop: floor(2147.4835872650146 * 1000 * 512).
GigaFlopNumerator == 1099511596

\* gigaFlops (a double), in units of 2^-9 GFlop/s.
GigaFlops(msec) == GigaFlopNumerator \div msec

\* checkCudaErrors on a failed call: the process exits at once with
\* EXIT_FAILURE. No statement after the call runs; some versions of the helper
\* reset the device first, which tears down what the process holds on it.
Abort ==
    /\ pc' = "aborted"
    /\ sub' = 0
    /\ exitCode' = EXIT_FAILURE
    /\ \E reset \in BOOLEAN :
          held' = IF reset THEN held \ DeviceSide ELSE held
    /\ UNCHANGED <<matrix_size, gpuVars, c2Writes, trace, report, matrix_result>>
    /\ UNCHANGED <<powerVars, callVars, bufVars, statVars>>

\* Control passes to statement `label` (its part `index`).
Goto(label, index) == pc' = label /\ sub' = index

\* main calls matrixMultiply, which fixes n and the six dimensions.
MainStart ==
    /\ pc = "main"
    /\ matrix_size' = SquareSize(MatDim)
    /\ Goto("hostAlloc", 0)
    /\ UNCHANGED <<held, gpuVars, c2Writes, trace, endVars>>
    /\ UNCHANGED <<powerVars, callVars, bufVars, statVars>>

HostAlloc ==
    /\ pc = "hostAlloc"
    /\ held' = held \cup HostBuffers
    /\ h_A' = Fresh(size_A) /\ h_B' = Fresh(size_B)
    /\ h_C' = Fresh(size_C) /\ h_C2' = Fresh(size_C)
    /\ Goto("cudaMalloc", 1)
    /\ UNCHANGED <<d_A, d_B, d_C, d_C2, reference, randState>>
    /\ UNCHANGED <<matrix_size, gpuVars, c2Writes, trace, endVars>>
    /\ UNCHANGED <<powerVars, callVars, statVars>>

DeviceAlloc ==
    /\ pc = "cudaMalloc"
    /\ \E ok \in BOOLEAN :
          IF ok
             THEN /\ held' = held \cup {DeviceBuffers[sub]}
                  /\ d_A'  = IF sub = 1 THEN Fresh(size_A) ELSE d_A
                  /\ d_B'  = IF sub = 2 THEN Fresh(size_B) ELSE d_B
                  /\ d_C'  = IF sub = 3 THEN Fresh(size_C) ELSE d_C
                  /\ d_C2' = IF sub = 4 THEN Fresh(size_C) ELSE d_C2
                  /\ IF sub < 4 THEN Goto("cudaMalloc", sub + 1)
                                ELSE Goto("randomInit", 0)
                  /\ UNCHANGED <<h_A, h_B, h_C, h_C2, reference, randState>>
                  /\ UNCHANGED <<matrix_size, gpuVars, c2Writes, trace, endVars>>
                  /\ UNCHANGED <<powerVars, callVars, statVars>>
             ELSE Abort

RandomInit ==
    /\ pc = "randomInit"
    /\ LET a == randomInit(SrandSeed, size_A)
           b == randomInit(a.state, size_B)
       IN  /\ h_A' = a.data
           /\ h_B' = b.data
           /\ randState' = b.state
    /\ Goto("copyIn", 1)
    /\ UNCHANGED <<h_C, h_C2, d_A, d_B, d_C, d_C2, reference>>
    /\ UNCHANGED <<matrix_size, held, gpuVars, c2Writes, trace, endVars>>
    /\ UNCHANGED <<powerVars, callVars, statVars>>

CopyInputs ==
    /\ pc = "copyIn"
    /\ stream = <<>>
    /\ \E ok \in BOOLEAN :
          IF ok
             THEN /\ d_A' = IF sub = 1 THEN h_A ELSE d_A
                  /\ d_B' = IF sub = 2 THEN h_B ELSE d_B
                  /\ IF sub < 2 THEN Goto("copyIn", sub + 1)
                                ELSE Goto("eventCreate", 1)
                  /\ UNCHANGED <<h_A, h_B, h_C, h_C2, d_C, d_C2, reference, randState>>
                  /\ UNCHANGED <<matrix_size, held, gpuVars, c2Writes, trace, endVars>>
                  /\ UNCHANGED <<powerVars, callVars, statVars>>
             ELSE Abort

EventCreate ==
    /\ pc = "eventCreate"
    /\ \E ok \in BOOLEAN :
          IF ok
             THEN /\ held' = held \cup {Events[sub]}
                  /\ ev' = [ev EXCEPT ![Events[sub]] = "created"]
                  /\ IF sub < 2 THEN Goto("eventCreate", sub + 1)
                                ELSE Goto("cublasCreate", 0)
                  /\ UNCHANGED <<matrix_size, stream, c2Writes, trace, endVars>>
                  /\ UNCHANGED <<powerVars, callVars, bufVars, statVars>>
             ELSE Abort

CublasCreate ==
    /\ pc = "cublasCreate"
    /\ \E ok \in BOOLEAN :
          IF ok
             THEN /\ held' = held \cup {"handle"}
                  /\ Goto("b_recordStart", 0)
                  /\ UNCHANGED <<matrix_size, gpuVars, c2Writes, trace, endVars>>
                  /\ UNCHANGED <<powerVars, callVars, bufVars, statVars>>
             ELSE Abort

-----------------------------------------------------------------------------
(* One timed invocation: the statements shared in shape by the baseline    *)
(* (lines 287-312) and by the loop body (lines 329-355).                   *)

\* cudaEventRecord(e, NULL): asynchronous; the marker is queued on the stream.
EventRecord(e, at, next, tr) ==
    /\ pc = at
    /\ \E ok \in BOOLEAN :
          IF ok
             THEN /\ ev' = [ev EXCEPT ![e] = "recorded"]
                  /\ stream' = Append(stream, e)
                  /\ trace' = tr
                  /\ Goto(next, 0)
                  /\ UNCHANGED <<matrix_size, held, c2Writes, endVars>>
                  /\ UNCHANGED <<powerVars, callVars, bufVars, statVars>>
             ELSE Abort

\* cublasSgemm(...): asynchronous; the multiply into `dst` is queued.
IssueSgemm(dst, at, next) ==
    /\ pc = at
    /\ \E ok \in BOOLEAN :
          IF ok
             THEN /\ stream' = Append(stream, dst)
                  /\ trace' = Append(trace, "issue")
                  /\ Goto(next, 0)
                  /\ UNCHANGED <<matrix_size, held, ev, c2Writes, endVars>>
                  /\ UNCHANGED <<powerVars, callVars, bufVars, statVars>>
             ELSE Abort

\* cudaEventSynchronize(stop): returns once the stop marker has been reached.
EventSynchronize(at, next) ==
    /\ pc = at
    /\ ev["stop"] # "recorded"
    /\ \E ok \in BOOLEAN :
          IF ok
             THEN /\ trace' = Append(trace, "sync")
                  /\ Goto(next, 0)
                  /\ UNCHANGED <<matrix_size, held, gpuVars, c2Writes, endVars>>
                  /\ UNCHANGED <<powerVars, callVars, bufVars, statVars>>
             ELSE Abort

EventsReady == ev["start"] = "done" /\ ev["stop"] = "done"

\* The device works through the stream in order, at its own pace.
DeviceStep ==
    /\ pc \notin {"exited", "aborted"}
    /\ stream # <<>>
    /\ stream' = Tail(stream)
    /\ LET op == Head(stream) IN
          /\ ev' = IF op \in {"start", "stop"} THEN [ev EXCEPT ![op] = "done"]
                                               ELSE ev
          /\ IF op = "d_C2" THEN d_C2' \in GemmOutcomes(d_C2) ELSE d_C2' = d_C2
          /\ IF op = "d_C"  THEN d_C'  \in GemmOutcomes(d_C)  ELSE d_C'  = d_C
          /\ c2Writes' = IF op = "d_C2" THEN c2Writes + 1 ELSE c2Writes
          /\ trace' = IF op = "stop" THEN Append(trace, "stopReached") ELSE trace
    /\ UNCHANGED <<pc, sub, matrix_size, held, endVars>>
    /\ UNCHANGED <<h_A, h_B, h_C, h_C2, d_A, d_B, reference, randState>>
    /\ UNCHANGED <<powerVars, callVars, statVars>>

-----------------------------------------------------------------------------
(* Baseline invocation into d_C2 (lines 285-312) *)

BaselineRecordStart == EventRecord("start", "b_recordStart", "b_sgemm", <<"recordStart">>)
BaselineSgemm       == IssueSgemm("d_C2", "b_sgemm", "b_recordStop")
BaselineRecordStop  == EventRecord("stop", "b_recordStop", "b_sync", Append(trace, "recordStop"))
BaselineSynchronize == EventSynchronize("b_sync", "b_elapsed")

\* cudaEventElapsedTime, then the performance line: nothing is accumulated.
BaselineElapsed ==
    /\ pc = "b_elapsed"
    /\ \E ok \in BOOLEAN :
          IF ok /\ EventsReady
             THEN /\ \E msec \in Msecs : GigaFlops(msec) >= 0
                  /\ trace' = Append(trace, "elapsed")
                  /\ Goto("b_copyBack", 0)
                  /\ UNCHANGED <<matrix_size, held, gpuVars, c2Writes, endVars>>
                  /\ UNCHANGED <<powerVars, callVars, bufVars, statVars>>
             ELSE Abort

\* cudaMemcpy(h_C2, d_C2, ..., DeviceToHost): blocking, after all queued work.
BaselineCopyBack ==
    /\ pc = "b_copyBack"
    /\ stream = <<>>
    /\ \E ok \in BOOLEAN :
          IF ok
             THEN /\ h_C2' = d_C2
                  /\ trace' = Append(trace, "copyBack")
                  /\ Goto("loopInit", 0)
                  /\ UNCHANGED <<h_A, h_B, h_C, d_A, d_B, d_C, d_C2, reference, randState>>
                  /\ UNCHANGED <<matrix_size, held, gpuVars, c2Writes, endVars>>
                  /\ UNCHANGED <<powerVars, callVars, statVars>>
             ELSE Abort

-----------------------------------------------------------------------------
(* Trial loop (lines 316-367) *)

\* nIter = 100; fail_count = 0; total_perf = 0.0; j = 0. undervolte() is
\* commented out here.
LoopInit ==
    /\ pc = "loopInit"
    /\ j' = 0 /\ fail_count' = 0 /\ total_perf' = 0
    /\ Goto("loopTest", 0)
    /\ UNCHANGED <<sumPerf, trialsDone, failsSeen>>
    /\ UNCHANGED <<matrix_size, held, gpuVars, c2Writes, trace, endVars>>
    /\ UNCHANGED <<powerVars, callVars, bufVars>>

LoopTest ==
    /\ pc = "loopTest"
    /\ IF j < nIter THEN Goto("t_recordStart", 0) ELSE Goto("report", 0)
    /\ UNCHANGED <<matrix_size, held, gpuVars, c2Writes, trace, endVars>>
    /\ UNCHANGED <<powerVars, callVars, bufVars, statVars>>

TrialRecordStart == EventRecord("start", "t_recordStart", "t_sgemm", <<"recordStart">>)

TrialSgemmIntoBaseline == IssueSgemm("d_C2", "t_sgemm", "t_recordStop")

TrialSgemm       == IssueSgemm("d_C", "t_sgemm", "t_recordStop")
TrialRecordStop  == EventRecord("stop", "t_recordStop", "t_sync", Append(trace, "recordStop"))

\* The loop body without its wait for the stop marker.
TrialNoSynchronize ==
    /\ pc = "t_sync"
    /\ trace' = Append(trace, "sync")
    /\ Goto("t_elapsed", 0)
    /\ UNCHANGED <<matrix_size, held, gpuVars, c2Writes, endVars>>
    /\ UNCHANGED <<powerVars, callVars, bufVars, statVars>>

TrialSynchronize == EventSynchronize("t_sync", "t_elapsed")

\* cudaEventElapsedTime, the performance line, and total_perf += gigaFlops:
\* the sum is formed in double and stored back into the float total_perf.
TrialElapsed ==
    /\ pc = "t_elapsed"
    /\ \E ok \in BOOLEAN :
          IF ok /\ EventsReady
             THEN /\ \E msec \in Msecs :
                        /\ total_perf' = RoundFloat(total_perf + GigaFlops(msec))
                        /\ sumPerf' = sumPerf + GigaFlops(msec)
                  /\ trace' = Append(trace, "elapsed")
                  /\ Goto("t_copyBack", 0)
                  /\ UNCHANGED <<j, fail_count, trialsDone, failsSeen>>
                  /\ UNCHANGED <<matrix_size, held, gpuVars, c2Writes, endVars>>
                  /\ UNCHANGED <<powerVars, callVars, bufVars>>
             ELSE Abort

TrialCopyBack ==
    /\ pc = "t_copyBack"
    /\ stream = <<>>
    /\ \E ok \in BOOLEAN :
          IF ok
             THEN /\ h_C' = d_C
                  /\ trace' = Append(trace, "copyBack")
                  /\ Goto("t_compare", 0)
                  /\ UNCHANGED <<h_A, h_B, h_C2, d_A, d_B, d_C, d_C2, reference, randState>>
                  /\ UNCHANGED <<matrix_size, held, gpuVars, c2Writes, endVars>>
                  /\ UNCHANGED <<powerVars, callVars, statVars>>
             ELSE Abort

\* The loop body's tail with a mismatch ending the loop.
TrialCompareStopOnFail ==
    /\ pc = "t_compare"
    /\ LET resCUBLAS == sdkCompareL2fe(h_C2, h_C, size_C) IN
          /\ fail_count' = IF resCUBLAS THEN fail_count ELSE fail_count + 1
          /\ failsSeen' = IF resCUBLAS THEN failsSeen ELSE failsSeen + 1
          /\ IF resCUBLAS THEN Goto("loopTest", 0) ELSE Goto("report", 0)
    /\ trialsDone' = trialsDone + 1
    /\ j' = j + 1
    /\ UNCHANGED <<total_perf, sumPerf>>
    /\ UNCHANGED <<matrix_size, held, gpuVars, c2Writes, trace, endVars>>
    /\ UNCHANGED <<powerVars, callVars, bufVars>>

\* sdkCompareL2fe; on a mismatch printDiff and fail_count++; the PASS/FAIL
\* line; then the loop's j++.
TrialCompare ==
    /\ pc = "t_compare"
    /\ LET resCUBLAS == sdkCompareL2fe(h_C2, h_C, size_C) IN
          /\ fail_count' = IF resCUBLAS THEN fail_count ELSE fail_count + 1
          /\ failsSeen' = IF resCUBLAS THEN failsSeen ELSE failsSeen + 1
    /\ trialsDone' = trialsDone + 1
    /\ j' = j + 1
    /\ Goto("loopTest", 0)
    /\ UNCHANGED <<total_perf, sumPerf>>
    /\ UNCHANGED <<matrix_size, held, gpuVars, c2Writes, trace, endVars>>
    /\ UNCHANGED <<powerVars, callVars, bufVars>>

-----------------------------------------------------------------------------
(* After the loop (lines 368-423) and main's return (lines 440-442) *)

\* Nothing printed yet.
NoReport == [total |-> 0, failed |-> 0,
             failureRate |-> <<0, 1>>, averagePerf |-> <<0, 1>>]

\* The three summary lines. A quotient x / nIter is kept as the pair
\* <<x, nIter>>: (float)fail_count / nIter and total_perf / nIter.
Report ==
    /\ pc = "report"
    /\ report' = [total |-> nIter, failed |-> fail_count,
                  failureRate |-> <<fail_count, nIter>>,
                  averagePerf |-> <<total_perf, nIter>>]
    /\ Goto("cublasDestroy", 0)
    /\ UNCHANGED <<matrix_result, exitCode>>
    /\ UNCHANGED <<matrix_size, held, gpuVars, c2Writes, trace>>
    /\ UNCHANGED <<powerVars, callVars, bufVars, statVars>>

CublasDestroy ==
    /\ pc = "cublasDestroy"
    /\ \E ok \in BOOLEAN :
          IF ok
             THEN /\ held' = held \ {"handle"}
                  /\ Goto("freeHost", 0)
                  /\ UNCHANGED <<matrix_size, gpuVars, c2Writes, trace, endVars>>
                  /\ UNCHANGED <<powerVars, callVars, bufVars, statVars>>
             ELSE Abort

FreeHost ==
    /\ pc = "freeHost"
    /\ held' = held \ HostBuffers
    /\ Goto("cudaFree", 1)
    /\ UNCHANGED <<matrix_size, gpuVars, c2Writes, trace, endVars>>
    /\ UNCHANGED <<powerVars, callVars, bufVars, statVars>>

DeviceFree ==
    /\ pc = "cudaFree"
    /\ \E ok \in BOOLEAN :
          IF ok
             THEN /\ held' = held \ {DeviceBuffers[sub]}
                  /\ IF sub < 4 THEN Goto("cudaFree", sub + 1)
                                ELSE Goto("return", 0)
                  /\ UNCHANGED <<matrix_size, gpuVars, c2Writes, trace, endVars>>
                  /\ UNCHANGED <<powerVars, callVars, bufVars, statVars>>
             ELSE Abort

\* return 0;
Return0 ==
    /\ pc = "return"
    /\ matrix_result' = 0
    /\ Goto("mainReturn", 0)
    /\ UNCHANGED <<report, exitCode>>
    /\ UNCHANGED <<matrix_size, held, gpuVars, c2Writes, trace>>
    /\ UNCHANGED <<powerVars, callVars, bufVars, statVars>>

\* main's tail with resetvolte() called and every NVML call succeeding.
MainReturnWithReset ==
    /\ pc = "mainReturn"
    /\ exitCode' = matrix_result
    /\ Goto("exited", 0)
    /\ nvmlLog' = <<NvmlCall("nvmlInit", <<>>, TRUE),
                    NvmlCall("nvmlDeviceGetHandleByIndex", <<0>>, TRUE),
                    NvmlCall("nvmlDeviceSetPowerManagementLimit", <<NormalLimit>>, TRUE),
                    NvmlCall("nvmlDeviceResetApplicationsClocks", <<>>, TRUE),
                    NvmlCall("nvmlDeviceSetAutoBoostedClocksEnabled",
                             <<NVML_FEATURE_ENABLED>>, TRUE)>>
    /\ powerLimit' = NormalLimit
    /\ appClocks' = DefaultClocks
    /\ autoBoost' = TRUE
    /\ nvmlInited' = TRUE
    /\ UNCHANGED <<fn, ppc, device, out, pre, hist, regime0>>
    /\ UNCHANGED <<report, matrix_result>>
    /\ UNCHANGED <<matrix_size, held, gpuVars, c2Writes, trace>>
    /\ UNCHANGED <<bufVars, statVars>>

\* return matrix_result; resetvolte() is commented out.
MainReturn ==
    /\ pc = "mainReturn"
    /\ exitCode' = matrix_result
    /\ Goto("exited", 0)
    /\ UNCHANGED <<report, matrix_result>>
    /\ UNCHANGED <<matrix_size, held, gpuVars, c2Writes, trace>>
    /\ UNCHANGED <<powerVars, callVars, bufVars, statVars>>

-----------------------------------------------------------------------------
(* Specifications *)

NormalRegime ==
    [limit |-> NormalLimit, clocks |-> DefaultClocks, boost |-> TRUE]
ConstrainedRegime ==
    [limit |-> ConstrainedLimit, clocks |-> <<LockedMemClock, LockedGfxClock>>,
     boost |-> FALSE]

\* Every regime the device may be in when a transition is first asked for.
AnyRegime ==
    [limit : PowerLimits,
     clocks : {DefaultClocks, <<LockedMemClock, LockedGfxClock>>},
     boost : BOOLEAN]

InitPower(regimes) ==
    /\ \E r \in regimes :
          /\ powerLimit = r.limit /\ appClocks = r.clocks /\ autoBoost = r.boost
          /\ regime0 = r
          /\ pre = r
    /\ nvmlInited = FALSE
    /\ fn = "none" /\ ppc = "idle" /\ device = <<>>
    /\ nvmlLog = <<>> /\ out = <<>> /\ hist = <<>>

InitStats ==
    /\ j = 0 /\ fail_count = 0 /\ total_perf = 0
    /\ sumPerf = 0 /\ trialsDone = 0 /\ failsSeen = 0

InitProcess ==
    /\ pc = "main" /\ sub = 0
    /\ matrix_size = SquareSize(0)
    /\ held = {}
    /\ h_A = <<>> /\ h_B = <<>> /\ h_C = <<>> /\ h_C2 = <<>>
    /\ d_A = <<>> /\ d_B = <<>> /\ d_C = <<>> /\ d_C2 = <<>>
    /\ reference = <<>>
    /\ randState = 0
    /\ stream = <<>>
    /\ ev = [e \in {"start", "stop"} |-> "none"]
    /\ c2Writes = 0
    /\ trace = <<>>
    /\ report = NoReport
    /\ matrix_result = -1
    /\ exitCode = -1
    /\ InitStats

\* The program as shipped: main runs matrixMultiply once.
Init == InitPower({NormalRegime, ConstrainedRegime}) /\ InitProcess

Next ==
    \/ MainStart \/ HostAlloc \/ DeviceAlloc \/ RandomInit \/ CopyInputs
    \/ EventCreate \/ CublasCreate
    \/ BaselineRecordStart \/ BaselineSgemm \/ BaselineRecordStop
    \/ BaselineSynchronize \/ BaselineElapsed \/ BaselineCopyBack
    \/ LoopInit \/ LoopTest
    \/ TrialRecordStart \/ TrialSgemm \/ TrialRecordStop
    \/ TrialSynchronize \/ TrialElapsed \/ TrialCopyBack \/ TrialCompare
    \/ DeviceStep
    \/ Report \/ CublasDestroy \/ FreeHost \/ DeviceFree \/ Return0 \/ MainReturn

Spec == Init /\ [][Next]_vars

\* The two transitions driven by a caller, in any order.
NextPower ==
    \/ CallUndervolte \/ CallResetvolte
    \/ UndervolteInit \/ UndervolteGetHandle \/ UndervolteSetLimit
    \/ UndervolteSetClocks \/ UndervolteSetBoost
    \/ ResetvolteInit \/ ResetvolteGetHandle \/ ResetvolteSetLimit
    \/ ResetvolteResetClocks \/ ResetvolteSetBoost
    \/ Return

InitTransitions == InitPower(AnyRegime) /\ InitProcess

SpecPower == InitTransitions /\ [][NextPower]_vars

\* The multiply call and the CPU reference applied to the same inputs.
ValidSizes ==
    {[uiWA |-> w, uiHA |-> h, uiWB |-> b, uiHB |-> w, uiWC |-> b, uiHC |-> h] :
        h \in 1 .. MaxHA, w \in 1 .. MaxWA, b \in 1 .. MaxWB}

InitGemm ==
    /\ InitPower({NormalRegime})
    /\ matrix_size \in ValidSizes
    /\ \E seed \in 0 .. RandRange - 1 :
          LET a == randomInit(seed, size_A)
              b == randomInit(a.state, size_B)
          IN  /\ h_A = a.data /\ d_A = a.data
              /\ h_B = b.data /\ d_B = b.data
              /\ randState = b.state
    /\ h_C = Fresh(size_C) /\ d_C = Fresh(size_C)
    /\ h_C2 = <<>> /\ d_C2 = <<>>
    /\ reference = Fresh(size_C)
    /\ pc = "check" /\ sub = 0
    /\ held = {}
    /\ stream = <<>>
    /\ ev = [e \in {"start", "stop"} |-> "none"]
    /\ c2Writes = 0
    /\ trace = <<>>
    /\ report = NoReport
    /\ matrix_result = -1
    /\ exitCode = -1
    /\ InitStats

InvokeSgemm ==
    /\ pc \in {"check", "check_cpu"}
    /\ d_C' = SgemmCall(d_C)
    /\ pc' = IF pc = "check" THEN "check_gemm" ELSE "check_both"
    /\ UNCHANGED <<h_A, h_B, h_C, h_C2, d_A, d_B, d_C2, reference, randState>>
    /\ UNCHANGED <<sub, matrix_size, held, gpuVars, c2Writes, trace, endVars>>
    /\ UNCHANGED <<powerVars, callVars, statVars>>

InvokeMatrixMulCPU ==
    /\ pc \in {"check", "check_gemm"}
    /\ reference' = matrixMulCPU(h_A, h_B, matrix_size.uiHA, matrix_size.uiWA,
                                 matrix_size.uiWB)
    /\ pc' = IF pc = "check" THEN "check_cpu" ELSE "check_both"
    /\ UNCHANGED <<h_A, h_B, h_C, h_C2, d_A, d_B, d_C, d_C2, randState>>
    /\ UNCHANGED <<sub, matrix_size, held, gpuVars, c2Writes, trace, endVars>>
    /\ UNCHANGED <<powerVars, callVars, statVars>>

NextGemm == InvokeSgemm \/ InvokeMatrixMulCPU

SpecGemm == InitGemm /\ [][NextGemm]_vars

-----------------------------------------------------------------------------
(* Properties of the power transitions, under SpecPower *)

\* The order in which a transition issues its NVML calls.
NvmlOrder(f) ==
    <<"nvmlInit",
      "nvmlDeviceGetHandleByIndex",
      "nvmlDeviceSetPowerManagementLimit",
      IF f = "undervolte" THEN "nvmlDeviceSetApplicationsClocks"
                          ELSE "nvmlDeviceResetApplicationsClocks",
      "nvmlDeviceSetAutoBoostedClocksEnabled">>

\* C1: in an activation of undervolte or resetvolte the NVML calls issued so
\* far are, in order, an initial segment of: initialize, resolve the handle of
\* device index 0, set the power limit, set/reset the application clocks,
\* disable/enable auto-boost; every call but the last issued one returned
\* success, so nothing is issued after the first failure; and an activation
\* that returns without a failure has issued all five.
C1_OrderedAbortOnFirstFailure ==
    fn # "none" =>
        /\ Len(nvmlLog) <= 5
        /\ \A n \in 1 .. Len(nvmlLog) :
              /\ nvmlLog[n].op = NvmlOrder(fn)[n]
              /\ n > 1 => nvmlLog[n - 1].ok
        /\ Len(nvmlLog) >= 2 => nvmlLog[2].arg = <<0>>
        /\ (ppc = "done" /\ FailedAt = 0) => Len(nvmlLog) = 5

C1_Witness ==
    /\ fn = "resetvolte" /\ ppc = "done"
    /\ Len(nvmlLog) = 3
    /\ nvmlLog[1].ok /\ nvmlLog[2].ok /\ ~ nvmlLog[3].ok

\* The regime a transition leaves when its call number k fails: what calls
\* 3 and 4 set is in effect if they came before k, the rest is as on entry.
RegimeAfterFailure(f, entry, k) ==
    [limit  |-> IF k > 3
                   THEN (IF f = "undervolte" THEN ConstrainedLimit ELSE NormalLimit)
                   ELSE entry.limit,
     clocks |-> IF k > 4
                   THEN (IF f = "undervolte" THEN <<LockedMemClock, LockedGfxClock>>
                                             ELSE DefaultClocks)
                   ELSE entry.clocks,
     boost  |-> entry.boost]

\* C2 as stated: a failed transition gives its caller an outcome that differs
\* from the outcome of a successful one, and leaves in effect what the calls
\* before the failing one set.
C2_CallerSeesFailure ==
    /\ \A a, b \in 1 .. Len(hist) :
          (hist[a].failedAt # 0 /\ hist[b].failedAt = 0)
              => hist[a].ret # hist[b].ret
    /\ \A a \in 1 .. Len(hist) :
          hist[a].failedAt # 0
              => hist[a].post = RegimeAfterFailure(hist[a].fn, hist[a].pre,
                                                   hist[a].failedAt)

\* C2 amended: a transition whose call number k fails prints exactly one
\* diagnostic on standard output (a successful one prints nothing) and hands
\* its caller the same empty result as a successful one; the device keeps what
\* the calls before k set and is otherwise as on entry: no compensating call.
C2_FailurePrintedNotReturnedNotRolledBack ==
    /\ (fn # "none" /\ ppc = "done") =>
          /\ (FailedAt # 0) = (Len(out) = 1)
          /\ (FailedAt = 0) = (out = <<>>)
          /\ FailedAt # 0 => Regime = RegimeAfterFailure(fn, pre, FailedAt)
          /\ FailedAt # 0 => Len(nvmlLog) = FailedAt
    /\ \A a \in 1 .. Len(hist) :
          /\ hist[a].ret = VoidResult
          /\ (hist[a].failedAt # 0) = (hist[a].out # <<>>)
          /\ hist[a].failedAt # 0
                => hist[a].post = RegimeAfterFailure(hist[a].fn, hist[a].pre,
                                                     hist[a].failedAt)

\* A transition to Constrained that failed at the clocks call from the Normal
\* regime: the power limit is lowered, clocks and boost are not.
C2_Witness ==
    /\ Len(hist) >= 1
    /\ hist[1].fn = "undervolte" /\ hist[1].failedAt = 4
    /\ hist[1].pre = NormalRegime
    /\ hist[1].post \notin {NormalRegime, ConstrainedRegime}
    /\ hist[1].post.limit = ConstrainedLimit
    /\ hist[1].out = <<"Failed to set clock of device">>

\* C3 as stated: undervolte then resetvolte, every NVML call succeeding,
\* leaves the power limit the device had before the first of the two.
C3_RoundTripRestoresLimit ==
    ( /\ Len(hist) = 2
      /\ hist[1].fn = "undervolte" /\ hist[1].failedAt = 0
      /\ hist[2].fn = "resetvolte" /\ hist[2].failedAt = 0 )
        => powerLimit = hist[1].pre.limit

-----------------------------------------------------------------------------
(* Properties of the multiply call, under SpecGemm *)

\* C7: for every valid descriptor and every input explored, the column-major
\* multiply called as the program calls it (no transposes, m = width(B),
\* n = height(A), k = width(A), left operand B with ld width(B), right operand
\* A with ld width(A), output ld width(B)) leaves in the destination the same
\* value at every flat index as matrixMulCPU: the row-major product A*B.
C7_SgemmCallIsRowMajorProduct ==
    pc = "check_both" => d_C = reference

\* The 3x2 by 2x4 case, with a product that is not all zero.
C7_Witness ==
    /\ pc = "check_both"
    /\ matrix_size.uiHA = 3 /\ matrix_size.uiWA = 2 /\ matrix_size.uiWB = 4
    /\ Len(d_C) = 12
    /\ \E i \in 1 .. 12 : d_C[i] > 0
    /\ d_C = reference

-----------------------------------------------------------------------------
(* Properties of the benchmark run, under Spec *)

Ended == pc \in {"exited", "aborted"}

AfterLoop ==
    pc \in {"report", "cublasDestroy", "freeHost", "cudaFree", "return",
            "mainReturn", "exited"}

InBaseline ==
    pc \in {"b_recordStart", "b_sgemm", "b_recordStop", "b_sync", "b_elapsed",
            "b_copyBack"}

InTrials ==
    pc \in {"loopInit", "loopTest", "t_recordStart", "t_sgemm", "t_recordStop",
            "t_sync", "t_elapsed", "t_copyBack", "t_compare"}

\* C4 as stated: when the run has ended, normally or by a fatal error,
\* everything it acquired has been released.
C4_AllReleasedAtEnd == Ended => held = {}

\* C5: a mismatch never stops the loop: the comparison has run for every trial
\* begun, a run that gets past the loop has run all nIter = 100 trials whatever
\* the comparisons returned, and a run that ends without a fatal error exits
\* with status 0.
C5_AllTrialsRunExitZero ==
    /\ trialsDone = j
    /\ j <= nIter
    /\ AfterLoop => trialsDone = nIter
    /\ pc = "exited" => exitCode = 0

\* Every one of the 100 comparisons failed and the process still exits 0.
C5_Witness ==
    pc = "exited" /\ exitCode = 0 /\ trialsDone = nIter /\ failsSeen = nIter

\* C6 as stated: fail_count is the number of failed comparisons, between 0 and
\* the number of trials run, and the figures printed after K trials are
\* failureRate = F / K and averageThroughput = (sum of the per-trial
\* throughputs) / K.
C6_StatisticsExact ==
    /\ (InTrials /\ pc # "loopInit") \/ AfterLoop =>
          /\ fail_count = failsSeen
          /\ 0 <= fail_count /\ fail_count <= trialsDone
    /\ report.total # 0 =>
          /\ report.failureRate = <<failsSeen, trialsDone>>
          /\ report.averagePerf = <<sumPerf, trialsDone>>

Multiplies(q) == Cardinality({i \in 1 .. Len(q) : q[i] \in {"d_C", "d_C2"}})

Position(e) ==
    IF \E i \in 1 .. Len(trace) : trace[i] = e
       THEN CHOOSE i \in 1 .. Len(trace) : trace[i] = e
       ELSE 0

Follows(later, earlier) ==
    Position(later) # 0 => (Position(earlier) # 0 /\ Position(earlier) < Position(later))

\* C8: in the baseline invocation and in every trial the events happen in the
\* order record start, issue the multiply, record stop, stop marker reached,
\* return from the wait, read the elapsed time, copy the result back, each at
\* most once; and at most one multiply is queued or running at any moment, so
\* no multiply is issued before the previous one has completed.
C8_TimedInvocationOrder ==
    /\ Multiplies(stream) <= 1
    /\ \A a, b \in 1 .. Len(trace) : trace[a] = trace[b] => a = b
    /\ Follows("issue", "recordStart")
    /\ Follows("recordStop", "issue")
    /\ Follows("stopReached", "recordStop")
    /\ Follows("sync", "stopReached")
    /\ Follows("elapsed", "sync")
    /\ Follows("copyBack", "elapsed")
    /\ pc \in {"b_sgemm", "t_sgemm"} => Multiplies(stream) = 0
    /\ pc \in {"b_elapsed", "t_elapsed", "b_copyBack", "t_copyBack"} =>
          (stream = <<>> /\ EventsReady)

\* The second trial has been timed and copied back.
C8_Witness ==
    /\ pc = "t_compare" /\ j = 1
    /\ trace = <<"recordStart", "issue", "recordStop", "stopReached", "sync",
                 "elapsed", "copyBack">>

\* C9: d_C2 is written once, by the baseline invocation, and h_C2 only by the
\* copy that follows it; from the start of the loop on no step changes d_C2,
\* h_C2 or the inputs h_A, h_B, d_A, d_B, and the baseline invocation leaves
\* the inputs and the trial buffers d_C, h_C unchanged.
C9_BaselineAndInputsFrame ==
    [][ /\ c2Writes' <= 1
        /\ c2Writes' # c2Writes => pc \in {"b_recordStop", "b_sync"}
        /\ (InTrials \/ AfterLoop) =>
              UNCHANGED <<d_C2, h_C2, h_A, h_B, d_A, d_B, c2Writes>>
        /\ InBaseline => UNCHANGED <<h_A, h_B, d_A, d_B, d_C, h_C>>
        /\ (InTrials /\ h_C' # h_C) => (pc = "t_copyBack" /\ h_C' = d_C)
      ]_vars

\* A trial whose result differs from the baseline it is compared against.
C9_Witness ==
    /\ pc = "t_compare" /\ j = 2
    /\ c2Writes = 1
    /\ h_C2 = d_C2 /\ h_C = d_C /\ h_C # h_C2
    /\ d_A = h_A /\ d_B = h_B

\* C10: as shipped, the run issues no NVML call and enters neither
\* transition: the device's power limit, application clocks and auto-boost
\* setting are at every step what they were when the process started.
C10_NoPowerTransition ==
    /\ nvmlLog = <<>> /\ hist = <<>> /\ fn = "none" /\ ~ nvmlInited
    /\ Regime = regime0

\* A whole run on a device that was already in the Constrained regime.
C10_Witness ==
    /\ pc = "exited" /\ trialsDone = nIter
    /\ regime0 = ConstrainedRegime /\ Regime = ConstrainedRegime

====
